---- MODULE Spec2Model ----
(***************************************************************************)
(* react-rsc-sentinel: the rsc-guardian CLI (analyze, split) and the name  *)
(* predicates it shares with the ESLint rule no-client-in-server.          *)
(*                                                                         *)
(* A string is a sequence of one-character strings, so that startsWith,    *)
(* length, indexing, toUpperCase and the code-unit order of Array.sort are *)
(* computed and not assumed.  A syntax tree node is a record               *)
(*   [type, name, value, kids, range]                                      *)
(* where kids holds, in key order, the properties of the ESTree node that  *)
(* are nodes (or null); a node is identified by its path from the Program. *)
(***************************************************************************)
EXTENDS Integers, Sequences, FiniteSets, TLC

VARIABLES
    cmd,            \* the entry point that runs: "names", "analyze", "split"
    pc,             \* the position inside that entry point
    name,           \* names spec: the string handed to the predicates
    verdict,        \* names spec: what the three copies of a predicate answered
    program,        \* the statements the file's text consists of (text and tree)
    path,           \* filePath, resolved: [dir, file]
    files,          \* the file system: file name (in dir) -> content
    files0,         \* the file system before the command ran
    content,        \* fs.readFileSync(absolutePath)
    ast,            \* parse(content)
    result,         \* analyze: AnalysisResult
    context,        \* split: SplitContext
    idx,            \* split: number of top-level statements iterated so far
    serverContent,  \* split: generateServerComponent(...)
    clientContent,  \* split: generateClientComponent(...)
    apply,          \* split: options.apply
    out,            \* console output and outcome of the command
    exitCode,       \* the status process.exit was called with, 0 if it was not
    lint            \* the lint rule: options, collected features, reports

vars == <<cmd, pc, name, verdict, program, path, files, files0, content, ast,
          result, context, idx, serverContent, clientContent, apply, out, exitCode,
          lint>>

---------------------------------------------------------------------------
(* Characters and strings (ASCII)                                          *)

LowerCase == <<"a","b","c","d","e","f","g","h","i","j","k","l","m",
               "n","o","p","q","r","s","t","u","v","w","x","y","z">>
UpperCase == <<"A","B","C","D","E","F","G","H","I","J","K","L","M",
               "N","O","P","Q","R","S","T","U","V","W","X","Y","Z">>
Digits == <<"0","1","2","3","4","5","6","7","8","9">>
Punct == <<"$", "'", "-", ".", "/", "_">>
PunctCode == <<36, 39, 45, 46, 47, 95>>

Pos(seq, c) == CHOOSE i \in 1..Len(seq) : seq[i] = c
In(seq, c) == \E i \in 1..Len(seq) : seq[i] = c

IsUpperLetter(c) == In(UpperCase, c)
IsLowerLetter(c) == In(LowerCase, c)

\* String.prototype.charCodeAt: the UTF-16 code unit of an ASCII character
CharCode(c) ==
    IF In(LowerCase, c) THEN 96 + Pos(LowerCase, c)
    ELSE IF In(UpperCase, c) THEN 64 + Pos(UpperCase, c)
    ELSE IF In(Digits, c) THEN 47 + Pos(Digits, c)
    ELSE PunctCode[Pos(Punct, c)]

\* String.prototype.toUpperCase on one character: a lower-case letter maps to
\* its capital, every other character (capital, digit, punctuation) to itself
toUpperCase(c) == IF In(LowerCase, c) THEN UpperCase[Pos(LowerCase, c)] ELSE c

\* String.prototype.startsWith
startsWith(s, prefix) ==
    /\ Len(s) >= Len(prefix)
    /\ SubSeq(s, 1, Len(prefix)) = prefix

\* the order Array.prototype.sort() uses without a comparator: by code units
RECURSIVE StrLess(_, _)
StrLess(a, b) ==
    IF a = <<>> THEN b # <<>>
    ELSE IF b = <<>> THEN FALSE
    ELSE IF CharCode(a[1]) # CharCode(b[1]) THEN CharCode(a[1]) < CharCode(b[1])
    ELSE StrLess(Tail(a), Tail(b))

Use == <<"u","s","e">>
On == <<"o","n">>

---------------------------------------------------------------------------
(* The names the sources spell out                                         *)

n_window == <<"w","i","n","d","o","w">>
n_document == <<"d","o","c","u","m","e","n","t">>
n_localStorage == <<"l","o","c","a","l","S","t","o","r","a","g","e">>
n_sessionStorage == <<"s","e","s","s","i","o","n","S","t","o","r","a","g","e">>
n_navigator == <<"n","a","v","i","g","a","t","o","r">>
n_location == <<"l","o","c","a","t","i","o","n">>
n_history == <<"h","i","s","t","o","r","y">>
n_alert == <<"a","l","e","r","t">>
n_confirm == <<"c","o","n","f","i","r","m">>
n_prompt == <<"p","r","o","m","p","t">>

\* analyze.ts
browserGlobals ==
    {n_window, n_document, n_localStorage, n_sessionStorage, n_navigator,
     n_location, n_history, n_alert, n_confirm, n_prompt}

\* split.ts
browserGlobalsSplit ==
    {n_window, n_document, n_localStorage, n_sessionStorage, n_navigator,
     n_location, n_history, n_alert, n_confirm, n_prompt}

\* no-client-in-server.ts
browserGlobalsLint ==
    {n_window, n_document, n_localStorage, n_sessionStorage, n_navigator,
     n_location, n_history, n_alert, n_confirm, n_prompt}

---------------------------------------------------------------------------
(* The name predicates, one definition per copy in the sources             *)

\* analyze.ts: name.startsWith('use') && name.length > 3 &&
\*             name[3] === name[3].toUpperCase()
isHook(n) ==
    /\ startsWith(n, Use)
    /\ Len(n) > 3
    /\ n[4] = toUpperCase(n[4])

\* analyze.ts
isEventHandler(n) ==
    /\ startsWith(n, On)
    /\ Len(n) > 2
    /\ n[3] = toUpperCase(n[3])

\* split.ts
isHookSplit(n) ==
    /\ startsWith(n, Use)
    /\ Len(n) > 3
    /\ n[4] = toUpperCase(n[4])

\* split.ts
isEventHandlerSplit(n) ==
    /\ startsWith(n, On)
    /\ Len(n) > 2
    /\ n[3] = toUpperCase(n[3])

\* mutant: the 4th character is not tested
isHookLintAnyUse(n) == startsWith(n, Use)

\* no-client-in-server.ts, checkHookCall: name[3] is undefined (falsy) when the
\* name has no 4th character, and a one-character string is always truthy
isHookLint(n) ==
    /\ startsWith(n, Use)
    /\ Len(n) >= 4
    /\ n[4] = toUpperCase(n[4])

\* no-client-in-server.ts, checkJSXAttribute
isEventHandlerLint(n) ==
    /\ startsWith(n, On)
    /\ Len(n) > 2
    /\ n[3] = toUpperCase(n[3])

n_client == <<"c","l","i","e","n","t">>
Client == <<"C","l","i","e","n","t">>
DotClient == <<".">> \o n_client
n_useState == <<"u","s","e","S","t","a","t","e">>
n_useEffect == <<"u","s","e","E","f","f","e","c","t">>
n_onClick == <<"o","n","C","l","i","c","k">>
n_onChange == <<"o","n","C","h","a","n","g","e">>
n_React == <<"R","e","a","c","t">>
n_Counter == <<"C","o","u","n","t","e","r">>
n_Page == <<"P","a","g","e">>
n_fetch == <<"f","e","t","c","h">>
n_setItem == <<"s","e","t","I","t","e","m">>
n_button == <<"b","u","t","t","o","n">>
n_div == <<"d","i","v">>
n_input == <<"i","n","p","u","t">>
n_user == <<"u","s","e","r">>
n_once == <<"o","n","c","e">>
n_Window == <<"W","i","n","d","o","w">>
n_Widget == <<"W","i","d","g","e","t">>
n_jsx == <<"j","s","x">>
n_inc == <<"i","n","c">>
n_url == <<"u","r","l">>
n_h == <<"h">>
n_n == <<"n">>
n_Component == <<"C","o","m","p","o","n","e","n","t">>
n_x == <<"x">>

---------------------------------------------------------------------------
(* Syntax trees as @typescript-eslint/typescript-estree's parse returns    *)
(* them: kids are the node-valued properties in key order                  *)

Node(t, n, v, k) == [type |-> t, name |-> n, value |-> v, kids |-> k, range |-> <<0, 0>>]

NullNode == Node("null", <<>>, "", <<>>)

Identifier(n) == Node("Identifier", n, "", <<>>)
Literal(v) == Node("Literal", <<>>, v, <<>>)
\* callee, then arguments
CallExpression(callee, args) == Node("CallExpression", <<>>, "", <<callee>> \o args)
\* object, property (not computed)
MemberExpression(object, property) == Node("MemberExpression", <<>>, "", <<object, property>>)
AwaitExpression(argument) == Node("AwaitExpression", <<>>, "", <<argument>>)
ArrowFunctionExpression(body) == Node("ArrowFunctionExpression", <<>>, "", <<body>>)
JSXIdentifier(n) == Node("JSXIdentifier", n, "", <<>>)
JSXExpressionContainer(e) == Node("JSXExpressionContainer", <<>>, "", <<e>>)
\* name, value
JSXAttribute(n, v) == Node("JSXAttribute", <<>>, "", <<JSXIdentifier(n), v>>)
\* openingElement (name, attributes); children and closingElement are empty
JSXElement(tag, attrs) ==
    Node("JSXElement", <<>>, "",
         <<Node("JSXOpeningElement", <<>>, "", <<JSXIdentifier(tag)>> \o attrs)>>)
ExpressionStatement(e) == Node("ExpressionStatement", <<>>, "", <<e>>)
ReturnStatement(e) == Node("ReturnStatement", <<>>, "", <<e>>)
BlockStatement(body) == Node("BlockStatement", <<>>, "", body)
\* one declarator: id, init
VariableDeclaration(id, init) ==
    Node("VariableDeclaration", <<>>, "",
         <<Node("VariableDeclarator", <<>>, "", <<Identifier(id), init>>)>>)
\* id (null for an anonymous function), body
FunctionDeclaration(id, body) == Node("FunctionDeclaration", <<>>, "", <<id, body>>)
\* source, then specifiers
ImportDeclaration(source, specifiers) ==
    Node("ImportDeclaration", <<>>, "", <<Literal(source)>> \o specifiers)
ImportDefaultSpecifier(local) == Node("ImportDefaultSpecifier", <<>>, "", <<Identifier(local)>>)
ImportSpecifier(imported) ==
    Node("ImportSpecifier", <<>>, "", <<Identifier(imported), Identifier(imported)>>)
ExportDefaultDeclaration(declaration) ==
    Node("ExportDefaultDeclaration", <<>>, "", <<declaration>>)

\* value && typeof value === 'object' && value.type
IsNode(v) == v.type # "null"

---------------------------------------------------------------------------
(* The statements a source file is made of: the text (in units of source   *)
(* text) and the tree the parser builds for it                             *)

Stmt(text, node) == [text |-> text, node |-> node]

Pool == <<
    \* 1
    Stmt(<<"import React, { useState }", " from 'react';">>,
         ImportDeclaration("react",
            <<ImportDefaultSpecifier(n_React), ImportSpecifier(n_useState)>>)),
    \* 2
    Stmt(<<"import { jsx } from 'react/jsx-runtime';">>,
         ImportDeclaration("react/jsx-runtime", <<ImportSpecifier(n_jsx)>>)),
    \* 3
    Stmt(<<"import { alert } from './ui';">>,
         ImportDeclaration("./ui", <<ImportSpecifier(n_alert)>>)),
    \* 4: a named function with a hook call and an event handler
    Stmt(<<"export default function Counter() {",
           " useState(0); return <button onClick={inc}/>; }">>,
         ExportDefaultDeclaration(FunctionDeclaration(Identifier(n_Counter),
            BlockStatement(<<
                ExpressionStatement(CallExpression(Identifier(n_useState), <<Literal("0")>>)),
                ReturnStatement(JSXElement(n_button,
                    <<JSXAttribute(n_onClick, JSXExpressionContainer(Identifier(n_inc)))>>))
            >>)))),
    \* 5: a pure server component
    Stmt(<<"export default async function Page() { await fetch(url); return <div/>; }">>,
         ExportDefaultDeclaration(FunctionDeclaration(Identifier(n_Page),
            BlockStatement(<<
                ExpressionStatement(AwaitExpression(
                    CallExpression(Identifier(n_fetch), <<Identifier(n_url)>>))),
                ReturnStatement(JSXElement(n_div, <<>>))
            >>)))),
    \* 6: an arrow function; browser globals inside a handler passed to onClick
    Stmt(<<"export default () => <button onClick={() => {",
           " window.alert(); localStorage.setItem(); }}/>;">>,
         ExportDefaultDeclaration(ArrowFunctionExpression(JSXElement(n_button,
            <<JSXAttribute(n_onClick, JSXExpressionContainer(ArrowFunctionExpression(
                BlockStatement(<<
                    ExpressionStatement(CallExpression(
                        MemberExpression(Identifier(n_window), Identifier(n_alert)), <<>>)),
                    ExpressionStatement(CallExpression(
                        MemberExpression(Identifier(n_localStorage), Identifier(n_setItem)), <<>>))
                >>))))>>)))),
    \* 7: an anonymous function declaration; a namespaced hook call
    Stmt(<<"export default function () { return React.useState(0); }">>,
         ExportDefaultDeclaration(FunctionDeclaration(NullNode,
            BlockStatement(<<
                ReturnStatement(CallExpression(
                    MemberExpression(Identifier(n_React), Identifier(n_useState)),
                    <<Literal("0")>>))
            >>)))),
    \* 8: another form of default export
    Stmt(<<"export default Widget;">>,
         ExportDefaultDeclaration(Identifier(n_Widget))),
    \* 9
    Stmt(<<"'use client';">>, ExpressionStatement(Literal("use client"))),
    \* 10
    Stmt(<<"'use strict';">>, ExpressionStatement(Literal("use strict"))),
    \* 11: hook, browser global and event handler in an other statement
    Stmt(<<"const h = <input onChange={useEffect(document)}/>;">>,
         VariableDeclaration(n_h, JSXElement(n_input,
            <<JSXAttribute(n_onChange, JSXExpressionContainer(
                CallExpression(Identifier(n_useEffect), <<Identifier(n_document)>>)))>>))),
    \* 12: names that miss the patterns
    Stmt(<<"const n = <div once={user(Window)}/>;">>,
         VariableDeclaration(n_n, JSXElement(n_div,
            <<JSXAttribute(n_once, JSXExpressionContainer(
                CallExpression(Identifier(n_user), <<Identifier(n_Window)>>)))>>))),
    \* 13: a member access on a browser global, the code of the rule's own test
    Stmt(<<"export default function Component() { const x = window.location; return null; }">>,
         ExportDefaultDeclaration(FunctionDeclaration(Identifier(n_Component),
            BlockStatement(<<
                VariableDeclaration(n_x,
                    MemberExpression(Identifier(n_window), Identifier(n_location))),
                ReturnStatement(Literal("null"))
            >>))))
>>

\* the longest source file, in top-level statements
MaxStmts == 3

Programs == UNION {[1..n -> 1..Len(Pool)] : n \in 0..MaxStmts}

\* a text that is no statement, and the file that holds it; it stands in a
\* program as statement 0
Unparsable == <<"export default function (">>

Malformed == <<0>>

StmtText(k) == IF k = 0 THEN Unparsable ELSE Pool[k].text

\* the text of the file: every statement is followed by a line break
RECURSIVE ContentOf(_)
ContentOf(prog) ==
    IF prog = <<>> THEN <<>>
    ELSE StmtText(Head(prog)) \o <<"\n">> \o ContentOf(Tail(prog))

\* mutant: the slice runs one unit further
sliceOneTooFar(text, start, end) == SubSeq(text, start + 1, end + 1)

\* String.prototype.slice(start, end) for 0 <= start <= end <= length
slice(text, start, end) == SubSeq(text, start + 1, end)

\* parse(content, {jsx, loc, range}): the Program whose body holds the trees of
\* the statements, each with the range [start, end) of its text in content
RECURSIVE ParseBody(_, _)
ParseBody(prog, offset) ==
    IF prog = <<>> THEN <<>>
    ELSE LET s == Pool[Head(prog)]
             end == offset + Len(s.text)
         IN <<[s.node EXCEPT !.range = <<offset, end>>]>> \o ParseBody(Tail(prog), end + 1)

parse(prog) == Node("Program", <<>>, "", ParseBody(prog, 0))

\* parse throws when a text of the file is no statement
parseThrows(prog) == \E k \in 1..Len(prog) : prog[k] = 0

---------------------------------------------------------------------------
(* Files and paths                                                         *)

EmptyFs == [f \in {} |-> <<>>]

\* fs.existsSync
existsSync(fs, p) == p.file \in DOMAIN fs

\* fs.writeFileSync: creates the file or replaces its content
writeFileSync(fs, file, data) ==
    [f \in DOMAIN fs \cup {file} |-> IF f = file THEN data ELSE fs[f]]

---------------------------------------------------------------------------
(* The idle values of the variables an entry point does not use            *)

NoVerdict == [fn |-> "none", analyze |-> FALSE, split |-> FALSE, lint |-> FALSE]
NoPath == [dir |-> "", file |-> <<>>]
NoResult == [hasUseClient |-> FALSE, hooks |-> <<>>, browserGlobals |-> <<>>,
             eventHandlers |-> <<>>]
\* defaultExport = 0 stands for undefined; a top-level statement is referred to
\* by its index in ast.body, a node by its path from the Program
NoContext == [hasClientFeatures |-> FALSE, clientNodes |-> {}, imports |-> <<>>,
              otherStatements |-> <<>>, defaultExport |-> 0]

\* the lint rule before create: no option, no listener, nothing collected
NoLint == [autoFix |-> FALSE, hasUseClient |-> FALSE, listening |-> FALSE,
           clientFeatures |-> <<>>, reports |-> <<>>, pass |-> 0]

---------------------------------------------------------------------------
(* The name predicates applied to a string                                 *)

TailAlphabet == {"e", "r", "x", "c", "S", "C", "1", "_", "$", "-"}

\* the longest tail that follows a prefix in the strings tried
MaxTail == 2

Prefixes == {<<>>, <<"u">>, <<"u","s">>, Use, <<"U","s","e">>, <<"u","s","E">>,
             <<"o">>, On, <<"O","n">>, <<"o","N">>}

Tails == UNION {[1..n -> TailAlphabet] : n \in 0..MaxTail}

Names == {p \o t : p \in Prefixes, t \in Tails}
         \cup browserGlobals
         \cup {n_Window, n_useState, n_onClick, n_user, n_once, n_setItem}

InitNames ==
    /\ cmd = "names" /\ pc = "start"
    /\ name \in Names
    /\ verdict = NoVerdict
    /\ program = <<>> /\ path = NoPath /\ files = EmptyFs /\ files0 = EmptyFs
    /\ content = <<>> /\ ast = NullNode /\ result = NoResult /\ context = NoContext
    /\ idx = 0 /\ serverContent = <<>> /\ clientContent = <<>> /\ apply = FALSE
    /\ out = <<>> /\ exitCode = 0 /\ lint = NoLint

UnchangedFile == UNCHANGED <<program, path, files, files0, content, ast, result, context,
                             idx, serverContent, clientContent, apply, out, exitCode, lint>>

CallIsHook ==
    /\ cmd = "names" /\ pc = "start"
    /\ verdict' = [fn |-> "isHook", analyze |-> isHook(name),
                   split |-> isHookSplit(name), lint |-> isHookLint(name)]
    /\ pc' = "called"
    /\ UNCHANGED <<cmd, name>> /\ UnchangedFile

CallIsEventHandler ==
    /\ cmd = "names" /\ pc = "start"
    /\ verdict' = [fn |-> "isEventHandler", analyze |-> isEventHandler(name),
                   split |-> isEventHandlerSplit(name), lint |-> isEventHandlerLint(name)]
    /\ pc' = "called"
    /\ UNCHANGED <<cmd, name>> /\ UnchangedFile

CallBrowserGlobalsHas ==
    /\ cmd = "names" /\ pc = "start"
    /\ verdict' = [fn |-> "browserGlobals.has", analyze |-> name \in browserGlobals,
                   split |-> name \in browserGlobalsSplit, lint |-> name \in browserGlobalsLint]
    /\ pc' = "called"
    /\ UNCHANGED <<cmd, name>> /\ UnchangedFile

NextNames == CallIsHook \/ CallIsEventHandler \/ CallBrowserGlobalsHas

SpecNames == InitNames /\ [][NextNames]_vars

---------------------------------------------------------------------------
(* analyze.ts                                                              *)

\* mutant: the directive is looked for in every top-level statement
firstIsUseClientAnywhere(a) ==
    \E k \in 1..Len(a.kids) :
        /\ a.kids[k].type = "ExpressionStatement"
        /\ a.kids[k].kids[1].type = "Literal"
        /\ a.kids[k].kids[1].value = "use client"

\* the test of ast.body[0] for the 'use client' directive
firstIsUseClient(a) ==
    /\ Len(a.kids) > 0
    /\ a.kids[1].type = "ExpressionStatement"
    /\ a.kids[1].kids[1].type = "Literal"
    /\ a.kids[1].kids[1].value = "use client"

\* the name a CallExpression adds to hooksSet, as a sequence of zero or one names
hookOfCall(node) ==
    LET callee == node.kids[1] IN
    IF callee.type = "Identifier" /\ isHook(callee.name) THEN <<callee.name>>
    ELSE IF /\ callee.type = "MemberExpression"
            /\ callee.kids[2].type = "Identifier"
            /\ isHook(callee.kids[2].name)
         THEN <<callee.kids[2].name>>
         ELSE <<>>

\* what one call of traverse adds for the node itself, in the order of the code
visit(node) ==
    (IF node.type = "CallExpression" /\ hookOfCall(node) # <<>>
        THEN <<[set |-> "hooks", name |-> hookOfCall(node)[1]]>> ELSE <<>>)
    \o (IF node.type = "Identifier" /\ node.name \in browserGlobals
        THEN <<[set |-> "browserGlobals", name |-> node.name]>> ELSE <<>>)
    \o (IF /\ node.type = "JSXAttribute"
           /\ node.kids[1].type = "JSXIdentifier"
           /\ isEventHandler(node.kids[1].name)
        THEN <<[set |-> "eventHandlers", name |-> node.kids[1].name]>> ELSE <<>>)

\* traverse: the node, then every child that is a node, in key order
RECURSIVE traverse(_), traverseEach(_)
traverse(node) == visit(node) \o traverseEach(node.kids)

traverseEach(items) ==
    IF items = <<>> THEN <<>>
    ELSE (IF IsNode(Head(items)) THEN traverse(Head(items)) ELSE <<>>)
         \o traverseEach(Tail(items))

\* Set.prototype.add on a Set kept in insertion order
setAdd(s, x) == IF In(s, x) THEN s ELSE Append(s, x)

\* the Set the adds for `which` build up, as Array.from returns it
RECURSIVE collect(_, _)
collect(adds, which) ==
    IF adds = <<>> THEN <<>>
    ELSE LET before == collect(SubSeq(adds, 1, Len(adds) - 1), which)
             last == adds[Len(adds)]
         IN IF last.set = which THEN setAdd(before, last.name) ELSE before

\* Array.prototype.sort() without a comparator, on strings
RECURSIVE insertSorted(_, _)
insertSorted(sorted, x) ==
    IF sorted = <<>> THEN <<x>>
    ELSE IF StrLess(x, Head(sorted)) THEN <<x>> \o sorted
    ELSE <<Head(sorted)>> \o insertSorted(Tail(sorted), x)

\* mutant: the names are returned in insertion order
sortOmitted(a) == a

RECURSIVE sort(_)
sort(a) == IF a = <<>> THEN <<>> ELSE insertSorted(sort(Tail(a)), Head(a))

\* mutant: the directive is never recognised
lintHasUseClientNever(a) == FALSE

\* no-client-in-server.ts, create: the same test on sourceCode.ast.body[0]
lintHasUseClient(a) ==
    /\ Len(a.kids) > 0
    /\ a.kids[1].type = "ExpressionStatement"
    /\ a.kids[1].kids[1].type = "Literal"
    /\ a.kids[1].kids[1].value = "use client"

analyzeAST(a) ==
    LET adds == traverse(a) IN
    [hasUseClient |-> firstIsUseClient(a),
     hooks |-> sort(collect(adds, "hooks")),
     browserGlobals |-> sort(collect(adds, "browserGlobals")),
     eventHandlers |-> sort(collect(adds, "eventHandlers"))]

\* mutant: the error is printed and the process ends normally
CommandCatchExitsZero(c) ==
    /\ cmd = c /\ pc = "failed"
    /\ out' = <<"Error:">> \o out
    /\ pc' = "exited"
    /\ UNCHANGED <<cmd, name, verdict, program, path, files, files0, content, ast, result,
                   context, idx, serverContent, clientContent, apply, exitCode, lint>>

\* the catch of a command's action: the error thrown by analyze or split is
\* printed and the process exits with status 1
CommandCatch(c) ==
    /\ cmd = c /\ pc = "failed"
    /\ out' = <<"Error:">> \o out
    /\ exitCode' = 1
    /\ pc' = "exited"
    /\ UNCHANGED <<cmd, name, verdict, program, path, files, files0, content, ast, result,
                   context, idx, serverContent, clientContent, apply, lint>>

\* the file the analyze runs are given
AnalyzePath == [dir |-> "/app", file |-> n_Page \o <<".","t","s","x">>]

InitFile(c, paths) ==
    /\ cmd = c /\ pc = "start"
    /\ name = <<>> /\ verdict = NoVerdict
    /\ path \in paths
    /\ \/ program \in Programs \cup {Malformed} /\ files = (path.file :> ContentOf(program))
       \/ program = <<>> /\ files = EmptyFs
    /\ files0 = files
    /\ content = <<>> /\ ast = NullNode /\ result = NoResult /\ context = NoContext
    /\ idx = 0 /\ serverContent = <<>> /\ clientContent = <<>> /\ apply = FALSE
    /\ out = <<>> /\ exitCode = 0 /\ lint = NoLint

InitAnalyze == InitFile("analyze", {AnalyzePath})

\* analyze, up to the parse: the existence check, the read and the parse
AnalyzeRead ==
    /\ cmd = "analyze" /\ pc = "start"
    /\ IF ~existsSync(files, path)
       THEN /\ pc' = "failed"
            /\ out' = <<"File not found">>
            /\ UNCHANGED <<content, ast>>
       ELSE IF parseThrows(program)
       THEN /\ content' = files[path.file]
            /\ pc' = "failed"
            /\ out' = <<"parse error">>
            /\ UNCHANGED ast
       ELSE /\ content' = files[path.file]
            /\ ast' = parse(program)
            /\ pc' = "parsed"
            /\ UNCHANGED out
    /\ UNCHANGED <<exitCode, lint>>
    /\ UNCHANGED <<cmd, name, verdict, program, path, files, files0, result, context, idx,
                   serverContent, clientContent, apply>>

AnalyzeAST ==
    /\ cmd = "analyze" /\ pc = "parsed"
    /\ result' = analyzeAST(ast)
    /\ pc' = "analyzed"
    /\ UNCHANGED <<exitCode, lint>>
    /\ UNCHANGED <<cmd, name, verdict, program, path, files, files0, content, ast, context,
                   idx, serverContent, clientContent, apply, out>>

\* the report, and the advice to run split when features are found without a directive
AnalyzeReport ==
    /\ cmd = "analyze" /\ pc = "analyzed"
    /\ out' = IF /\ ~result.hasUseClient
                 /\ \/ Len(result.hooks) > 0
                    \/ Len(result.browserGlobals) > 0
                    \/ Len(result.eventHandlers) > 0
              THEN <<"report", "Consider running: rsc-guardian split">>
              ELSE <<"report">>
    /\ pc' = "done"
    /\ UNCHANGED <<exitCode, lint>>
    /\ UNCHANGED <<cmd, name, verdict, program, path, files, files0, content, ast, result,
                   context, idx, serverContent, clientContent, apply>>

\* the command's catch: console.error('Error:', message); process.exit(1)
AnalyzeCatch == CommandCatch("analyze")

NextAnalyze == AnalyzeRead \/ AnalyzeAST \/ AnalyzeReport \/ AnalyzeCatch

SpecAnalyze == InitAnalyze /\ [][NextAnalyze]_vars

---------------------------------------------------------------------------
(* split.ts                                                                *)

\* path.extname of a file name: from its last dot, unless there is none or
\* the name starts with it
LastDot(file) ==
    IF In(file, ".") THEN CHOOSE i \in 1..Len(file) :
                              /\ file[i] = "."
                              /\ \A j \in (i + 1)..Len(file) : file[j] # "."
    ELSE 0

extname(p) ==
    IF LastDot(p.file) <= 1 THEN <<>>
    ELSE SubSeq(p.file, LastDot(p.file), Len(p.file))

\* path.basename(p, ext): the file name without the directory and without ext
basename(p, ext) ==
    IF /\ ext # <<>>
       /\ Len(p.file) > Len(ext)
       /\ SubSeq(p.file, Len(p.file) - Len(ext) + 1, Len(p.file)) = ext
    THEN SubSeq(p.file, 1, Len(p.file) - Len(ext))
    ELSE p.file

\* mutant: the base name is used as it is
capitalizeOmitted(b) == b

\* baseName.charAt(0).toUpperCase() + baseName.slice(1)
capitalize(b) == IF b = <<>> THEN <<>> ELSE <<toUpperCase(b[1])>> \o Tail(b)

\* the node matches one of the three rules itself (the tests before the recursion)
directClient(node) ==
    \/ /\ node.type = "CallExpression"
       /\ \/ /\ node.kids[1].type = "Identifier"
             /\ isHookSplit(node.kids[1].name)
          \/ /\ node.kids[1].type = "MemberExpression"
             /\ node.kids[1].kids[2].type = "Identifier"
             /\ isHookSplit(node.kids[1].kids[2].name)
    \/ /\ node.type = "Identifier"
       /\ node.name \in browserGlobalsSplit
    \/ /\ node.type = "JSXAttribute"
       /\ node.kids[1].type = "JSXIdentifier"
       /\ isEventHandlerSplit(node.kids[1].name)

\* analyzeNodeForClientFeatures(node, context): the value returned, which is
\* true when the node matches or the call on one of its children returned true
RECURSIVE analyzeNodeForClientFeatures(_)
analyzeNodeForClientFeatures(node) ==
    \/ directClient(node)
    \/ \E k \in 1..Len(node.kids) :
          /\ IsNode(node.kids[k])
          /\ analyzeNodeForClientFeatures(node.kids[k])

\* analyzeNodeForClientFeatures(node, context) for the node at path p: the nodes
\* the call and the calls on the descendants add to context.clientNodes
RECURSIVE clientNodesAdded(_, _)
clientNodesAdded(node, p) ==
    (IF directClient(node) THEN {p} ELSE {})
    \cup UNION {clientNodesAdded(node.kids[k], Append(p, k)) :
                  k \in {j \in 1..Len(node.kids) : IsNode(node.kids[j])}}

\* mutant: the first default export is kept
splitStatementKeepsFirst(ctx, a, k) ==
    LET statement == a.kids[k]
        seen == [ctx EXCEPT !.clientNodes = @ \cup clientNodesAdded(statement, <<k>>),
                            !.hasClientFeatures = @ \/ analyzeNodeForClientFeatures(statement)]
    IN IF statement.type = "ImportDeclaration"
       THEN [ctx EXCEPT !.imports = Append(@, k)]
       ELSE IF statement.type = "ExportDefaultDeclaration"
       THEN [seen EXCEPT !.defaultExport = IF @ = 0 THEN k ELSE @]
       ELSE [seen EXCEPT !.otherStatements = Append(@, k)]

\* mutant: import declarations are analyzed like the other statements
splitStatementImportsToo(ctx, a, k) ==
    LET statement == a.kids[k]
        seen == [ctx EXCEPT !.clientNodes = @ \cup clientNodesAdded(statement, <<k>>),
                            !.hasClientFeatures = @ \/ analyzeNodeForClientFeatures(statement)]
    IN IF statement.type = "ImportDeclaration"
       THEN [seen EXCEPT !.imports = Append(@, k)]
       ELSE IF statement.type = "ExportDefaultDeclaration"
       THEN [seen EXCEPT !.defaultExport = k]
       ELSE [seen EXCEPT !.otherStatements = Append(@, k)]

\* mutant: a default export is also pushed to otherStatements
splitStatementExportToOthers(ctx, a, k) ==
    LET statement == a.kids[k]
        seen == [ctx EXCEPT !.clientNodes = @ \cup clientNodesAdded(statement, <<k>>),
                            !.hasClientFeatures = @ \/ analyzeNodeForClientFeatures(statement)]
    IN IF statement.type = "ImportDeclaration"
       THEN [ctx EXCEPT !.imports = Append(@, k)]
       ELSE IF statement.type = "ExportDefaultDeclaration"
       THEN [seen EXCEPT !.defaultExport = k, !.otherStatements = Append(@, k)]
       ELSE [seen EXCEPT !.otherStatements = Append(@, k)]

\* the body of the loop over ast.body, for the statement ast.body[k - 1]
splitStatement(ctx, a, k) ==
    LET statement == a.kids[k]
        seen == [ctx EXCEPT !.clientNodes = @ \cup clientNodesAdded(statement, <<k>>),
                            !.hasClientFeatures = @ \/ analyzeNodeForClientFeatures(statement)]
    IN IF statement.type = "ImportDeclaration"
       THEN [ctx EXCEPT !.imports = Append(@, k)]
       ELSE IF statement.type = "ExportDefaultDeclaration"
       THEN [seen EXCEPT !.defaultExport = k]
       ELSE [seen EXCEPT !.otherStatements = Append(@, k)]

\* the lines of a generated text; each `output += ... + '\n'` is one line
SourceLine(text) == [k |-> "source", text |-> text, id |-> <<>>, file |-> <<>>]
ImportReactLine == [k |-> "import React from 'react';", text |-> <<>>, id |-> <<>>, file |-> <<>>]
ImportClientLine(id, file) == [k |-> "import id from './file';", text |-> <<>>, id |-> id, file |-> file]
BlankLine == [k |-> "", text |-> <<>>, id |-> <<>>, file |-> <<>>]
DirectiveLine == [k |-> "'use client';", text |-> <<>>, id |-> <<>>, file |-> <<>>]
ExportFunctionLine(id) == [k |-> "export default function id(props: any) {", text |-> <<>>, id |-> id, file |-> <<>>]
ReturnLine(id) == [k |-> "  return <id {...props} />;", text |-> <<>>, id |-> id, file |-> <<>>]
CloseLine == [k |-> "}", text |-> <<>>, id |-> <<>>, file |-> <<>>]

\* imp.source.value === 'react' || imp.source.value === 'react/jsx-runtime'
isReactImport(imp) == imp.kids[1].value = "react" \/ imp.kids[1].value = "react/jsx-runtime"

\* originalContent.slice(node.range[0], node.range[1]) as a line of the output
sourceOf(text, node) == SourceLine(slice(text, node.range[1], node.range[2]))

\* the lines of the statements refs, in order
RECURSIVE sourceLines(_, _, _)
sourceLines(text, a, refs) ==
    IF refs = <<>> THEN <<>>
    ELSE <<sourceOf(text, a.kids[Head(refs)])>> \o sourceLines(text, a, Tail(refs))

\* Array.prototype.filter on a list of statements
RECURSIVE filterImports(_, _, _)
filterImports(a, refs, react) ==
    IF refs = <<>> THEN <<>>
    ELSE (IF isReactImport(a.kids[Head(refs)]) = react THEN <<Head(refs)>> ELSE <<>>)
         \o filterImports(a, Tail(refs), react)

generateServerComponent(originalContent, originalPath, ctx, a) ==
    LET baseName == basename(originalPath, extname(originalPath))
        ext == extname(originalPath)
        clientComponentName == baseName \o DotClient \o ext
        clientImportName == capitalize(baseName) \o Client
        \* find: the first import of react, if any
        reactImports == filterImports(a, ctx.imports, TRUE)
        otherImports == filterImports(a, ctx.imports, FALSE)
        declaration == a.kids[ctx.defaultExport].kids[1]
        funcName ==
            IF ctx.defaultExport # 0
               /\ declaration.type \in {"FunctionDeclaration", "ArrowFunctionExpression"}
            THEN IF declaration.type = "FunctionDeclaration" /\ IsNode(declaration.kids[1])
                 THEN declaration.kids[1].name
                 ELSE n_Component
            ELSE capitalize(baseName)
    IN (IF reactImports # <<>>
        THEN <<sourceOf(originalContent, a.kids[Head(reactImports)])>>
        ELSE <<ImportReactLine>>)
       \o <<ImportClientLine(clientImportName, clientComponentName)>>
       \o sourceLines(originalContent, a, otherImports)
       \o <<BlankLine>>
       \o <<ExportFunctionLine(funcName), ReturnLine(clientImportName), CloseLine>>

\* mutant: the react import is synthesized whatever the source imports
generateClientComponentReactAlways(originalContent, originalPath, ctx, a) ==
    <<DirectiveLine, BlankLine>>
    \o sourceLines(originalContent, a, ctx.imports)
    \o <<ImportReactLine>>
    \o <<BlankLine>>
    \o sourceLines(originalContent, a, ctx.otherStatements)
    \o (IF ctx.defaultExport # 0
        THEN <<sourceOf(originalContent, a.kids[ctx.defaultExport])>>
        ELSE <<>>)

generateClientComponent(originalContent, originalPath, ctx, a) ==
    <<DirectiveLine, BlankLine>>
    \o sourceLines(originalContent, a, ctx.imports)
    \o (IF filterImports(a, ctx.imports, TRUE) = <<>> THEN <<ImportReactLine>> ELSE <<>>)
    \o <<BlankLine>>
    \o sourceLines(originalContent, a, ctx.otherStatements)
    \o (IF ctx.defaultExport # 0
        THEN <<sourceOf(originalContent, a.kids[ctx.defaultExport])>>
        ELSE <<>>)

\* `${baseName}.server${ext}` and `${baseName}.client${ext}` in the file's directory
serverPath(p) == basename(p, extname(p)) \o <<".","s","e","r","v","e","r">> \o extname(p)
clientPath(p) == basename(p, extname(p)) \o DotClient \o extname(p)

\* the files the split runs are given
SplitPaths == {[dir |-> "/app", file |-> <<"p","a","g","e",".","t","s","x">>],
               [dir |-> "/app", file |-> n_Counter \o <<".","t","s","x">>],
               [dir |-> "/app", file |-> <<"m","y","-","b","t","n",".","j","s","x">>]}

InitSplit == InitFile("split", SplitPaths)

\* split, up to the loop: the existence check, the read, the parse, the context
SplitRead ==
    /\ cmd = "split" /\ pc = "start"
    /\ IF ~existsSync(files, path)
       THEN /\ pc' = "failed"
            /\ out' = <<"File not found">>
            /\ UNCHANGED <<content, ast, context, apply>>
       ELSE IF parseThrows(program)
       THEN /\ content' = files[path.file]
            /\ pc' = "failed"
            /\ out' = <<"parse error">>
            /\ UNCHANGED <<ast, context, apply>>
       ELSE /\ content' = files[path.file]
            /\ ast' = parse(program)
            /\ context' = NoContext
            /\ \E option \in BOOLEAN : apply' = option
            /\ pc' = "loop"
            /\ UNCHANGED out
    /\ idx' = 0
    /\ UNCHANGED <<exitCode, lint>>
    /\ UNCHANGED <<cmd, name, verdict, program, path, files, files0, result,
                   serverContent, clientContent>>

\* one iteration of `for (const statement of ast.body)`
SplitStatement ==
    /\ cmd = "split" /\ pc = "loop"
    /\ idx < Len(ast.kids)
    /\ context' = splitStatement(context, ast, idx + 1)
    /\ idx' = idx + 1
    /\ UNCHANGED <<exitCode, lint>>
    /\ UNCHANGED <<cmd, pc, name, verdict, program, path, files, files0, content, ast,
                   result, serverContent, clientContent, apply, out>>

\* mutant: the split goes on without client features
noSplitNeededNever(ctx) == FALSE

\* if (!context.hasClientFeatures)
noSplitNeeded(ctx) == ~ctx.hasClientFeatures

\* after the loop: the early return, or the two generated texts
SplitGenerate ==
    /\ cmd = "split" /\ pc = "loop"
    /\ idx = Len(ast.kids)
    /\ IF noSplitNeeded(context)
       THEN /\ out' = <<"No client-only features detected. No split needed.">>
            /\ pc' = "done"
            /\ UNCHANGED <<serverContent, clientContent>>
       ELSE /\ serverContent' = generateServerComponent(content, path, context, ast)
            /\ clientContent' = generateClientComponent(content, path, context, ast)
            /\ pc' = "generated"
            /\ UNCHANGED out
    /\ UNCHANGED <<exitCode, lint>>
    /\ UNCHANGED <<cmd, name, verdict, program, path, files, files0, content, ast, result,
                   context, idx, apply>>

\* options.apply: fs.writeFileSync(serverPath, serverContent)
SplitWriteServer ==
    /\ cmd = "split" /\ pc = "generated"
    /\ apply
    /\ files' = writeFileSync(files, serverPath(path), serverContent)
    /\ pc' = "serverWritten"
    /\ UNCHANGED <<exitCode, lint>>
    /\ UNCHANGED <<cmd, name, verdict, program, path, files0, content, ast, result, context,
                   idx, serverContent, clientContent, apply, out>>

\* fs.writeFileSync(clientPath, clientContent) and the two Created messages
SplitWriteClient ==
    /\ cmd = "split" /\ pc = "serverWritten"
    /\ files' = writeFileSync(files, clientPath(path), clientContent)
    /\ out' = <<"Created server", "Created client">>
    /\ pc' = "done"
    /\ UNCHANGED <<exitCode, lint>>
    /\ UNCHANGED <<cmd, name, verdict, program, path, files0, content, ast, result, context,
                   idx, serverContent, clientContent, apply>>

\* the dry run: both texts are printed as a diff against the empty text
SplitDiff ==
    /\ cmd = "split" /\ pc = "generated"
    /\ ~apply
    /\ out' = <<"--- Proposed Changes ---", "--- End of diff ---",
                "Run with --apply to write these files.">>
    /\ pc' = "done"
    /\ UNCHANGED <<exitCode, lint>>
    /\ UNCHANGED <<cmd, name, verdict, program, path, files, files0, content, ast, result,
                   context, idx, serverContent, clientContent, apply>>

\* fs.writeFileSync(serverPath, ...) throws: nothing is written
SplitWriteServerThrows ==
    /\ cmd = "split" /\ pc = "generated"
    /\ apply
    /\ out' = <<"write error">>
    /\ pc' = "failed"
    /\ UNCHANGED <<exitCode, lint>>
    /\ UNCHANGED <<cmd, name, verdict, program, path, files, files0, content, ast, result,
                   context, idx, serverContent, clientContent, apply>>

\* fs.writeFileSync(clientPath, ...) throws after the server file was written
SplitWriteClientThrows ==
    /\ cmd = "split" /\ pc = "serverWritten"
    /\ out' = <<"write error">>
    /\ pc' = "failed"
    /\ UNCHANGED <<exitCode, lint>>
    /\ UNCHANGED <<cmd, name, verdict, program, path, files, files0, content, ast, result,
                   context, idx, serverContent, clientContent, apply>>

\* the command's catch: console.error('Error:', message); process.exit(1)
SplitCatch == CommandCatch("split")

NextSplit ==
    \/ SplitRead \/ SplitStatement \/ SplitGenerate
    \/ SplitWriteServer \/ SplitWriteClient \/ SplitDiff
    \/ SplitWriteServerThrows \/ SplitWriteClientThrows \/ SplitCatch

SpecSplit == InitSplit /\ [][NextSplit]_vars

---------------------------------------------------------------------------
(* no-client-in-server.ts                                                  *)

endsWith(s, suffix) ==
    /\ Len(s) >= Len(suffix)
    /\ SubSeq(s, Len(s) - Len(suffix) + 1, Len(s)) = suffix

\* /\.(tsx?|jsx?)$/.test(filename)
lintChecksFile(filename) ==
    \/ endsWith(filename, <<".","t","s">>) \/ endsWith(filename, <<".","t","s","x">>)
    \/ endsWith(filename, <<".","j","s">>) \/ endsWith(filename, <<".","j","s","x">>)

\* an entry of clientFeatures; the node is named by its path from the Program
Feature(p, n, t) == [node |-> p, name |-> n, type |-> t]

checkIdentifier(node, p) ==
    IF node.name \in browserGlobalsLint
    THEN <<Feature(p, node.name, "browser-global")>> ELSE <<>>

\* the two tests of the callee, one after the other
checkHookCall(node, p) ==
    (IF node.kids[1].type = "Identifier" /\ isHookLint(node.kids[1].name)
     THEN <<Feature(p, node.kids[1].name, "hook")>> ELSE <<>>)
    \o (IF /\ node.kids[1].type = "MemberExpression"
           /\ node.kids[1].kids[2].type = "Identifier"
           /\ isHookLint(node.kids[1].kids[2].name)
        THEN <<Feature(p, node.kids[1].kids[2].name, "hook")>> ELSE <<>>)

checkJSXAttribute(node, p) ==
    IF node.kids[1].type = "JSXIdentifier" /\ isEventHandlerLint(node.kids[1].name)
    THEN <<Feature(p, node.kids[1].name, "event-handler")>> ELSE <<>>

\* the listener the traversal calls when it enters the node
listener(node, p) ==
    IF node.type = "Identifier" THEN checkIdentifier(node, p)
    ELSE IF node.type = "CallExpression" THEN checkHookCall(node, p)
    ELSE IF node.type = "JSXAttribute" THEN checkJSXAttribute(node, p)
    ELSE <<>>

\* the linter's traversal: every node is entered once, before its children
RECURSIVE lintTraverse(_, _), lintTraverseFrom(_, _, _)
lintTraverse(node, p) == listener(node, p) \o lintTraverseFrom(node, p, 1)

lintTraverseFrom(node, p, k) ==
    IF k > Len(node.kids) THEN <<>>
    ELSE (IF IsNode(node.kids[k]) THEN lintTraverse(node.kids[k], Append(p, k)) ELSE <<>>)
         \o lintTraverseFrom(node, p, k + 1)

\* context.report for one feature
report(feature, autoFix) ==
    [node |-> feature.node, messageId |-> "clientFeatureInServer", name |-> feature.name,
     fix |-> IF autoFix THEN "insertTextBefore(body[0], 'use client';\\n)" ELSE "undefined"]

\* the loop of Program:exit over clientFeatures
RECURSIVE reportAll(_, _)
reportAll(features, autoFix) ==
    IF features = <<>> THEN <<>>
    ELSE <<report(Head(features), autoFix)>> \o reportAll(Tail(features), autoFix)

\* the files the linter hands to the rule
LintPaths == {[dir |-> "/app", file |-> <<"p","a","g","e",".","t","s","x">>],
              [dir |-> "/app", file |-> <<"p","a","g","e",".","m","j","s">>]}

\* the linter has parsed the file before it creates the rule
InitLint ==
    /\ cmd = "lint" /\ pc = "start"
    /\ name = <<>> /\ verdict = NoVerdict
    /\ path \in LintPaths
    /\ program \in Programs
    /\ files = (path.file :> ContentOf(program)) /\ files0 = files
    /\ content = ContentOf(program) /\ ast = parse(program)
    /\ result = NoResult /\ context = NoContext
    /\ idx = 0 /\ serverContent = <<>> /\ clientContent = <<>> /\ apply = FALSE
    /\ out = <<>> /\ exitCode = 0 /\ lint = NoLint

UnchangedByLint ==
    UNCHANGED <<cmd, name, verdict, program, path, files, files0, content, ast, result,
                context, idx, serverContent, clientContent, apply, out, exitCode>>

\* create: listeners are returned for a checked file without the directive
LintCreate ==
    /\ cmd = "lint" /\ pc = "start"
    /\ \E option \in (IF lint.pass = 0 THEN BOOLEAN ELSE {lint.autoFix}) :
          lint' = [autoFix |-> option,
                   hasUseClient |-> lintChecksFile(path.file) /\ lintHasUseClient(ast),
                   listening |-> lintChecksFile(path.file) /\ ~lintHasUseClient(ast),
                   clientFeatures |-> <<>>, reports |-> <<>>, pass |-> lint.pass]
    /\ pc' = "created"
    /\ UnchangedByLint

\* the traversal of the tree: Identifier, CallExpression and JSXAttribute
\* listeners push to clientFeatures
LintTraverse ==
    /\ cmd = "lint" /\ pc = "created"
    /\ lint' = [lint EXCEPT !.clientFeatures =
                   IF lint.listening THEN lintTraverse(ast, <<>>) ELSE <<>>]
    /\ pc' = "traversed"
    /\ UnchangedByLint

\* Program:exit: one report per entry of clientFeatures
LintProgramExit ==
    /\ cmd = "lint" /\ pc = "traversed"
    /\ lint' = [lint EXCEPT !.reports =
                   IF lint.listening THEN reportAll(lint.clientFeatures, lint.autoFix)
                   ELSE <<>>]
    /\ pc' = "done"
    /\ UnchangedByLint

\* the text the fix inserts, in units of source text
DirectiveText == <<"'use client';", "\n">>

\* fixer.insertTextBefore(node, text): text goes in at the start of the node
insertTextBefore(source, node, text) ==
    slice(source, 0, node.range[1]) \o text \o slice(source, node.range[1], Len(source))

\* the fixes of a pass, applied in order of report: a fix that starts at or
\* before the end of the one applied last is left for a later pass
RECURSIVE applyFixes(_, _, _, _)
applyFixes(source, a, reports, applied) ==
    IF reports = <<>> THEN source
    ELSE IF Head(reports).fix = "undefined" \/ applied
    THEN applyFixes(source, a, Tail(reports), applied)
    ELSE applyFixes(insertTextBefore(source, a.kids[1], DirectiveText), a,
                    Tail(reports), TRUE)

\* the statements a text is made of, as the parser finds them
RECURSIVE StatementsOf(_)
StatementsOf(text) ==
    IF text = <<>> THEN <<>>
    ELSE LET k == CHOOSE j \in 1..Len(Pool) : startsWith(text, Pool[j].text \o <<"\n">>)
         IN <<k>> \o StatementsOf(SubSeq(text, Len(Pool[k].text) + 2, Len(text)))

\* the most passes of fix and lint again that are followed
MaxPasses == 3

\* the fixes of the reports are applied to the file, which is parsed and
\* handed to the rule again
LintFix ==
    /\ cmd = "lint" /\ pc = "done"
    /\ lint.pass < MaxPasses
    /\ \E k \in 1..Len(lint.reports) : lint.reports[k].fix # "undefined"
    /\ content' = applyFixes(content, ast, lint.reports, FALSE)
    /\ files' = writeFileSync(files, path.file, content')
    /\ program' = StatementsOf(content')
    /\ ast' = parse(program')
    /\ lint' = [NoLint EXCEPT !.autoFix = lint.autoFix, !.pass = lint.pass + 1]
    /\ pc' = "start"
    /\ UNCHANGED <<cmd, name, verdict, path, files0, result, context, idx, serverContent,
                   clientContent, apply, out, exitCode>>

NextLint == LintCreate \/ LintTraverse \/ LintProgramExit \/ LintFix

SpecLint == InitLint /\ [][NextLint]_vars

\* every entry point
Init == InitNames \/ InitAnalyze \/ InitSplit \/ InitLint

Next == NextNames \/ NextAnalyze \/ NextSplit \/ NextLint

Spec == Init /\ [][Next]_vars

---------------------------------------------------------------------------
(* Nodes of a tree, by path                                                *)

RECURSIVE Paths(_)
Paths(node) ==
    {<<>>} \cup UNION {{<<k>> \o p : p \in Paths(node.kids[k])} :
                        k \in {j \in 1..Len(node.kids) : IsNode(node.kids[j])}}

RECURSIVE NodeAt(_, _)
NodeAt(node, p) == IF p = <<>> THEN node ELSE NodeAt(node.kids[Head(p)], Tail(p))

Range(seq) == {seq[k] : k \in 1..Len(seq)}

StrictlyAscending(seq) == \A k \in 1..(Len(seq) - 1) : StrLess(seq[k], seq[k + 1])

\* the node at p is the property of a member access
IsMemberProperty(root, p) ==
    /\ p # <<>>
    /\ NodeAt(root, SubSeq(p, 1, Len(p) - 1)).type = "MemberExpression"
    /\ p[Len(p)] = 2

Analyzed == cmd = "analyze" /\ pc \in {"analyzed", "done"}

---------------------------------------------------------------------------
(* Claims on the name predicates                                           *)

\* C1 (as claimed): each copy of the hook-name test answers true exactly when
\* the name starts with `use`, has a 4th character and that character is an
\* upper-case letter
C1_HookIffUpperLetter ==
    verdict.fn = "isHook" =>
        LET claimed == /\ startsWith(name, Use)
                       /\ Len(name) >= 4
                       /\ IsUpperLetter(name[4])
        IN /\ verdict.analyze = claimed
           /\ verdict.split = claimed
           /\ verdict.lint = claimed

\* C2 (as claimed): each copy of the event-handler test answers true exactly
\* when the name starts with `on`, has a 3rd character and that character is
\* an upper-case letter
C2_HandlerIffUpperLetter ==
    verdict.fn = "isEventHandler" =>
        LET claimed == /\ startsWith(name, On)
                       /\ Len(name) >= 3
                       /\ IsUpperLetter(name[3])
        IN /\ verdict.analyze = claimed
           /\ verdict.split = claimed
           /\ verdict.lint = claimed

---------------------------------------------------------------------------
(* Claims on analyzeAST                                                    *)

\* the module of scenario 3: window.alert and localStorage.setItem inside a
\* handler passed to onClick
Scenario3 == <<6>>

\* C3 (as claimed): a browser global is recorded only for an identifier that is
\* one of the ten names and is not the property of a member access; for the
\* module of scenario 3 analyzeAST returns browserGlobals [localStorage, window],
\* eventHandlers [onClick] and no hooks
C3_GlobalsAreBareReferences ==
    Analyzed =>
        /\ \A n \in Range(result.browserGlobals) :
              /\ n \in browserGlobals
              /\ \E p \in Paths(ast) :
                    /\ NodeAt(ast, p).type = "Identifier"
                    /\ NodeAt(ast, p).name = n
                    /\ ~IsMemberProperty(ast, p)
        /\ program = Scenario3 =>
              /\ result.browserGlobals = <<n_localStorage, n_window>>
              /\ result.eventHandlers = <<n_onClick>>
              /\ result.hooks = <<>>

\* the statement is the expression statement of the string literal 'use client'
IsUseClientDirective(stmt) ==
    /\ stmt.type = "ExpressionStatement"
    /\ stmt.kids[1].type = "Literal"
    /\ stmt.kids[1].value = "use client"

\* C4: hasUseClient is true iff the module has a first top-level statement and
\* that statement is the 'use client' directive; a directive further down, an
\* empty module and the features found in the file do not change it; the lint
\* rule's test of the first statement gives the same answer
C4_DirectiveOnlyFirst ==
    Analyzed =>
        LET first == /\ Len(ast.kids) >= 1
                     /\ IsUseClientDirective(ast.kids[1])
        IN /\ result.hasUseClient = first
           /\ lintHasUseClient(ast) = first

\* C4 witness: the directive comes first and hooks follow it
C4_Witness ==
    /\ Analyzed
    /\ result.hasUseClient
    /\ Len(result.hooks) > 0

\* the names the nodes of the tree match a detection rule with
MatchedHooks(root) ==
    {hookOfCall(NodeAt(root, p))[1] :
        p \in {q \in Paths(root) : /\ NodeAt(root, q).type = "CallExpression"
                                    /\ hookOfCall(NodeAt(root, q)) # <<>>}}

MatchedGlobals(root) ==
    {NodeAt(root, p).name :
        p \in {q \in Paths(root) : /\ NodeAt(root, q).type = "Identifier"
                                    /\ NodeAt(root, q).name \in browserGlobals}}

MatchedHandlers(root) ==
    {NodeAt(root, p).kids[1].name :
        p \in {q \in Paths(root) : /\ NodeAt(root, q).type = "JSXAttribute"
                                    /\ NodeAt(root, q).kids[1].type = "JSXIdentifier"
                                    /\ isEventHandler(NodeAt(root, q).kids[1].name)}}

---------------------------------------------------------------------------
(* Claims on split                                                         *)

\* the loop over ast.body has ended
LoopDone ==
    /\ cmd = "split"
    /\ \/ pc = "loop" /\ idx = Len(ast.kids)
       \/ pc \in {"generated", "serverWritten", "done"}

\* both texts have been generated
Generated ==
    /\ cmd = "split"
    /\ \/ pc \in {"generated", "serverWritten"}
       \/ pc = "done" /\ context.hasClientFeatures

\* the paths of the nodes inside import declarations / inside the other
\* top-level statements that match one of the three rules
MatchesInImports ==
    {p \in Paths(ast) : /\ p # <<>>
                        /\ ast.kids[p[1]].type = "ImportDeclaration"
                        /\ directClient(NodeAt(ast, p))}

MatchesOutsideImports ==
    {p \in Paths(ast) : /\ p # <<>>
                        /\ ast.kids[p[1]].type # "ImportDeclaration"
                        /\ directClient(NodeAt(ast, p))}

C7_WritesOnlyWhenApplied ==
    cmd = "split" =>
        /\ \A f \in DOMAIN files0 : f \in DOMAIN files /\ files[f] = files0[f]
        /\ DOMAIN files # DOMAIN files0 => context.hasClientFeatures /\ apply
        /\ (pc = "done" /\ ~context.hasClientFeatures) =>
              out = <<"No client-only features detected. No split needed.">>

\* C7 witness: apply is set and the module is only an async default-exported
\* function that calls fetch and returns JSX
C7_Witness ==
    /\ cmd = "split" /\ pc = "done"
    /\ apply
    /\ program = <<5>>
    /\ DOMAIN files = DOMAIN files0

\* the bucket a top-level statement belongs to
KindOf(stmt) ==
    IF stmt.type = "ImportDeclaration" THEN "import"
    ELSE IF stmt.type = "ExportDefaultDeclaration" THEN "default"
    ELSE "other"

\* the statements of a kind among the first n, in source order
RECURSIVE RefsOfKind(_, _, _)
RefsOfKind(a, n, kind) ==
    IF n = 0 THEN <<>>
    ELSE RefsOfKind(a, n - 1, kind) \o (IF KindOf(a.kids[n]) = kind THEN <<n>> ELSE <<>>)

\* the last default export among the first n statements, 0 if there is none
LastDefault(a, n) ==
    LET d == RefsOfKind(a, n, "default") IN IF d = <<>> THEN 0 ELSE d[Len(d)]

Count(seq, x) == Cardinality({k \in 1..Len(seq) : seq[k] = x})

Ascending(refs) == \A k \in 1..(Len(refs) - 1) : refs[k] < refs[k + 1]

\* C8 (as claimed): after the loop every top-level statement is in exactly one
\* of imports, otherStatements and defaultExport, and the two lists are in
\* source order
C8_EveryStatementInOneBucket ==
    LoopDone =>
        /\ \A k \in 1..Len(ast.kids) :
              Count(context.imports, k) + Count(context.otherStatements, k)
                  + (IF context.defaultExport = k THEN 1 ELSE 0) = 1
        /\ Ascending(context.imports)
        /\ Ascending(context.otherStatements)

\* C8 (amended): after each iteration, imports holds the import declarations
\* and otherStatements the statements that are neither imports nor default
\* exports, among those iterated, each once and in source order;
\* defaultExport is the last default export iterated, and an earlier default
\* export is in no bucket
C8_BucketsKeepLastDefault ==
    (cmd = "split" /\ pc \in {"loop", "generated", "serverWritten", "done"}) =>
        /\ context.imports = RefsOfKind(ast, idx, "import")
        /\ context.otherStatements = RefsOfKind(ast, idx, "other")
        /\ context.defaultExport = LastDefault(ast, idx)

\* C8 witness: all three buckets are filled
C8_Witness ==
    /\ LoopDone
    /\ Len(context.imports) >= 1
    /\ Len(context.otherStatements) >= 1
    /\ context.defaultExport # 0

\* the text of the k-th statement as the file spells it
TextOf(k) == Pool[program[k]].text

\* the k-th statement is an import of react or of react/jsx-runtime
TargetsReact(k) ==
    /\ ast.kids[k].type = "ImportDeclaration"
    /\ Pool[program[k]].node.kids[1].value \in {"react", "react/jsx-runtime"}

\* the lines before the first empty line
RECURSIVE BeforeBlank(_)
BeforeBlank(lines) ==
    IF lines = <<>> \/ Head(lines) = BlankLine THEN <<>>
    ELSE <<Head(lines)>> \o BeforeBlank(Tail(lines))

RECURSIVE TextLines(_)
TextLines(refs) ==
    IF refs = <<>> THEN <<>>
    ELSE <<SourceLine(TextOf(Head(refs)))>> \o TextLines(Tail(refs))

AllImports == RefsOfKind(ast, Len(ast.kids), "import")

ReactImports == SelectSeq(AllImports, LAMBDA k : TargetsReact(k))

\* the first line of the server module: the first import of react, or the
\* synthesized one
FirstServerLine ==
    IF ReactImports = <<>> THEN ImportReactLine ELSE SourceLine(TextOf(ReactImports[1]))

\* the file's base name: the file name up to its last dot
BaseNameOf(file) == SubSeq(file, 1, LastDot(file) - 1)

UpperFirst(b) == <<toUpperCase(b[1])>> \o Tail(b)

\* the import of the sibling client module
SiblingImport ==
    ImportClientLine(UpperFirst(BaseNameOf(path.file)) \o Client, clientPath(path))

ServerFunctionName == serverContent[Len(serverContent) - 2].id

\* the declaration of the default export the partition recorded
RecordedDeclaration == Pool[program[LastDefault(ast, Len(ast.kids))]].node.kids[1]

IsNamedFunction(decl) ==
    decl.type = "FunctionDeclaration" /\ decl.kids[1].type = "Identifier"

\* C10 (as claimed): the exported function has the name of the default export
\* when that is a named function declaration, and the capitalized base name of
\* the file in every other case
C10_NameOrCapitalizedBaseName ==
    Generated =>
        ServerFunctionName =
            IF LastDefault(ast, Len(ast.kids)) # 0 /\ IsNamedFunction(RecordedDeclaration)
            THEN RecordedDeclaration.kids[1].name
            ELSE UpperFirst(BaseNameOf(path.file))

\* C10 (amended): the exported function has the name of the recorded default
\* export when that is a named function declaration; the name Component when
\* it is an arrow function or an anonymous function declaration; and the
\* capitalized base name of the file when it is of another form or missing
C10_NameComponentOrBaseName ==
    Generated =>
        ServerFunctionName =
            IF LastDefault(ast, Len(ast.kids)) = 0 THEN UpperFirst(BaseNameOf(path.file))
            ELSE IF IsNamedFunction(RecordedDeclaration)
                 THEN RecordedDeclaration.kids[1].name
            ELSE IF RecordedDeclaration.type \in {"FunctionDeclaration",
                                                   "ArrowFunctionExpression"}
                 THEN n_Component
            ELSE UpperFirst(BaseNameOf(path.file))

\* C10 witness: the default export is an arrow function
C10_Witness ==
    /\ Generated
    /\ LastDefault(ast, Len(ast.kids)) # 0
    /\ RecordedDeclaration.type = "ArrowFunctionExpression"

---------------------------------------------------------------------------
(* The client module                                                       *)

AllOthers == RefsOfKind(ast, Len(ast.kids), "other")

AllDefaults == RefsOfKind(ast, Len(ast.kids), "default")

\* the client module with the default exports ds at its end: the directive,
\* every import, the synthesized react import when no import targets react or
\* react/jsx-runtime, every other statement, then ds; all statements verbatim
ClientLayout(ds) ==
    <<DirectiveLine, BlankLine>>
    \o TextLines(AllImports)
    \o (IF ReactImports = <<>> THEN <<ImportReactLine>> ELSE <<>>)
    \o <<BlankLine>>
    \o TextLines(AllOthers)
    \o TextLines(ds)

\* C11 (as claimed): the client module is the directive, every original
\* import in source order, the synthesized react import iff no import targets
\* react or react/jsx-runtime, every other statement in source order and the
\* default export, each verbatim, so that every top-level statement of the
\* source that is not an import is there exactly once
C11_EveryNonImportOnceInClient ==
    Generated => clientContent = ClientLayout(AllDefaults)

\* C11 (amended): the client module is the directive, every original import
\* in source order, the synthesized react import iff no import targets react
\* or react/jsx-runtime, every other statement in source order and the last
\* default export of the source, each verbatim; a default export that is
\* followed by another default export is left out
C11_ClientCarriesLastDefault ==
    Generated =>
        clientContent =
            ClientLayout(IF AllDefaults = <<>> THEN <<>>
                         ELSE <<AllDefaults[Len(AllDefaults)]>>)

\* C11 witness: an import that does not target react, an other statement and
\* a default export, so that the react import is synthesized
C11_Witness ==
    /\ Generated
    /\ AllImports # <<>> /\ ReactImports = <<>>
    /\ AllOthers # <<>>
    /\ Len(AllDefaults) = 1
    /\ Len(clientContent) = 7

---------------------------------------------------------------------------
(* The generated texts as modules                                          *)

\* an IdentifierName of the language: a letter, $ or _ followed by letters,
\* digits, $ and _
IsIdentifierName(s) ==
    /\ s # <<>>
    /\ IsUpperLetter(s[1]) \/ IsLowerLetter(s[1]) \/ s[1] \in {"$", "_"}
    /\ \A k \in 2..Len(s) :
          IsUpperLetter(s[k]) \/ IsLowerLetter(s[k]) \/ In(Digits, s[k]) \/ s[k] \in {"$", "_"}

\* a line of a generated text that holds an identifier holds a valid one; a
\* line copied from the source is a whole statement of a module that parsed
IsValidLine(l) ==
    l.k \in {ImportClientLine(<<>>, <<>>).k, ExportFunctionLine(<<>>).k, ReturnLine(<<>>).k}
        => IsIdentifierName(l.id)

\* the identifier the server module binds to the client sibling
ClientImportLine == serverContent[CHOOSE k \in 1..Len(serverContent) :
                                      serverContent[k].k = ImportClientLine(<<>>, <<>>).k]

\* C12: when client features are detected, every line of the two generated
\* texts is valid, for every module and every file name, and the element the
\* server function returns is named by the identifier the import of the
\* client sibling binds
C12_GeneratedTextsAreValid ==
    Generated =>
        /\ \A k \in 1..Len(serverContent) : IsValidLine(serverContent[k])
        /\ \A k \in 1..Len(clientContent) : IsValidLine(clientContent[k])
        /\ serverContent[Len(serverContent) - 1].k = ReturnLine(<<>>).k
        /\ serverContent[Len(serverContent) - 1].id = ClientImportLine.id

---------------------------------------------------------------------------
(* The taint set                                                           *)

\* C16: once analyzeNodeForClientFeatures has run on a top-level statement,
\* clientNodes holds every node of the statement that matches a rule and every
\* ancestor of such a node up to the statement itself
C16_TaintSetHoldsAncestors ==
    (cmd = "split" /\ pc \in {"loop", "generated", "serverWritten", "done"}) =>
        \A p \in MatchesOutsideImports :
            p[1] <= idx => \A n \in 1..Len(p) : SubSeq(p, 1, n) \in context.clientNodes

---------------------------------------------------------------------------
(* Several default exports                                                 *)

\* the statement the client module ends with
LastClientLine == clientContent[Len(clientContent)]

\* the name the server function has when the default export is statement k
FunctionNameFor(k) ==
    LET decl == Pool[program[k]].node.kids[1]
    IN IF IsNamedFunction(decl) THEN decl.kids[1].name
       ELSE IF decl.type \in {"FunctionDeclaration", "ArrowFunctionExpression"}
            THEN n_Component
       ELSE UpperFirst(BaseNameOf(path.file))

\* C18 (as claimed): with more than one default export, the partition records
\* the first one, and the generators use the first one
C18_FirstDefaultIsUsed ==
    (LoopDone /\ Len(AllDefaults) > 1) =>
        /\ context.defaultExport = AllDefaults[1]
        /\ Generated =>
              /\ LastClientLine = SourceLine(TextOf(AllDefaults[1]))
              /\ ServerFunctionName = FunctionNameFor(AllDefaults[1])

\* C18 (amended): with more than one default export, the partition records
\* the last one, and the generators use the last one: the client module ends
\* with it and the server function is named after it
C18_LastDefaultIsUsed ==
    (LoopDone /\ Len(AllDefaults) > 1) =>
        /\ context.defaultExport = AllDefaults[Len(AllDefaults)]
        /\ Generated =>
              /\ LastClientLine = SourceLine(TextOf(AllDefaults[Len(AllDefaults)]))
              /\ ServerFunctionName = FunctionNameFor(AllDefaults[Len(AllDefaults)])

\* C18 witness: two default exports that differ in text and in the name they
\* give the server function
C18_Witness ==
    /\ Generated
    /\ Len(AllDefaults) > 1
    /\ TextOf(AllDefaults[1]) # TextOf(AllDefaults[Len(AllDefaults)])
    /\ FunctionNameFor(AllDefaults[1]) # FunctionNameFor(AllDefaults[Len(AllDefaults)])

---------------------------------------------------------------------------
(* analyze and split on the same module                                    *)

\* the condition under which analyze advises to run split, the directive aside
AnalyzeFindsFeatures(a) ==
    LET r == analyzeAST(a)
    IN Len(r.hooks) > 0 \/ Len(r.browserGlobals) > 0 \/ Len(r.eventHandlers) > 0

\* C20: on every module, analyzeAST returns a hook, a browser global or an
\* event handler iff split sets hasClientFeatures and does not answer "No
\* split needed", also when the match is inside an import declaration only
C20_AnalyzeAndSplitAgree ==
    (cmd = "split" /\ pc = "done") =>
        /\ AnalyzeFindsFeatures(ast) = context.hasClientFeatures
        /\ AnalyzeFindsFeatures(ast) =
               (out # <<"No client-only features detected. No split needed.">>)

---------------------------------------------------------------------------
(* The three copies of the name tests                                      *)

\* C17: for every name, the hook test, the event-handler test and the
\* browser-global membership test give the same answer in analyze.ts, in
\* split.ts and in the lint rule
C17_ThreeCopiesAgree ==
    (cmd = "names" /\ pc = "called") =>
        /\ verdict.analyze = verdict.split
        /\ verdict.split = verdict.lint

\* C17 witness: the hook test on a name that has no 4th character, where the
\* lint rule tests name[3] and the two others test the length
C17_Witness ==
    /\ cmd = "names" /\ pc = "called"
    /\ verdict.fn = "isHook"
    /\ name = Use
    /\ ~verdict.lint

---------------------------------------------------------------------------
(* Failures                                                                *)

\* the command has gone past its first step
Started == cmd \in {"analyze", "split"} /\ pc # "start"

\* the command ended in its catch, or is about to
Failed == pc \in {"failed", "exited"}

\* C13: when the path does not exist, analyze and split fail with File not
\* found and nothing is read, parsed or written; when the parse fails, its
\* error is what the caller gets and no file is written; after a failure the
\* only step is the exit with status 1, and no step is taken again
C13_FailuresSurfaceAtOnce ==
    /\ (Started /\ ~existsSync(files0, path)) =>
          /\ Failed
          /\ out[Len(out)] = "File not found"
          /\ content = <<>> /\ ast = NullNode
          /\ DOMAIN files = DOMAIN files0
    /\ (Started /\ existsSync(files0, path) /\ parseThrows(program)) =>
          /\ Failed
          /\ out[Len(out)] = "parse error"
          /\ ast = NullNode
          /\ DOMAIN files = DOMAIN files0
    /\ (cmd \in {"analyze", "split"} /\ pc = "exited") =>
          /\ exitCode = 1
          /\ out[1] = "Error:" /\ Len(out) = 2
    /\ (cmd \in {"analyze", "split"} /\ pc # "exited") => exitCode = 0

\* C13 witness: split has exited on a file that exists and does not parse
C13_Witness ==
    /\ cmd = "split" /\ pc = "exited"
    /\ existsSync(files0, path)
    /\ out = <<"Error:", "parse error">>
    /\ exitCode = 1

---------------------------------------------------------------------------
(* The pair of files an apply run writes                                   *)

\* the run has ended, in its last statement or in the command's catch
RunEnded == cmd = "split" /\ pc \in {"done", "exited"}

\* C19: when a split run with apply set has ended, with or without a failed
\* write, the server file and the client file are both written or both not
C19_PairIsAllOrNothing ==
    (RunEnded /\ apply) =>
        (serverPath(path) \in DOMAIN files) = (clientPath(path) \in DOMAIN files)

---------------------------------------------------------------------------
(* The lint rule's reports                                                 *)

LintDone == cmd = "lint" /\ pc = "done"

\* the node at p is the object of a member access
IsMemberObject(root, p) ==
    /\ p # <<>>
    /\ NodeAt(root, SubSeq(p, 1, Len(p) - 1)).type = "MemberExpression"
    /\ p[Len(p)] = 1

\* the occurrences of client features in the file: the calls of a hook, the
\* references to a browser global (the property name of a member access is
\* none) and the JSX attributes that are event handlers
FeatureOccurrences ==
    {p \in Paths(ast) :
        LET node == NodeAt(ast, p)
        IN \/ node.type = "CallExpression" /\ hookOfCall(node) # <<>>
           \/ /\ node.type = "Identifier"
              /\ node.name \in browserGlobals
              /\ ~IsMemberProperty(ast, p)
           \/ /\ node.type = "JSXAttribute"
              /\ node.kids[1].type = "JSXIdentifier"
              /\ isEventHandler(node.kids[1].name)}

\* the name of the feature at p
FeatureNameAt(p) ==
    LET node == NodeAt(ast, p)
    IN IF node.type = "CallExpression" THEN hookOfCall(node)[1]
       ELSE IF node.type = "Identifier" THEN node.name
       ELSE node.kids[1].name

\* C14: for a file whose first statement is the directive nothing is
\* reported; for a checked file without it, Program:exit reports exactly one
\* clientFeatureInServer diagnostic per occurrence of a client feature, at the
\* node of the occurrence and with its name
C14_OneReportPerFeature ==
    LintDone =>
        /\ firstIsUseClient(ast) => lint.reports = <<>>
        /\ (~firstIsUseClient(ast) /\ lintChecksFile(path.file)) =>
              /\ {<<r.node, r.name>> : r \in Range(lint.reports)}
                     = {<<p, FeatureNameAt(p)>> : p \in FeatureOccurrences}
              /\ Len(lint.reports) = Cardinality(FeatureOccurrences)
              /\ \A r \in Range(lint.reports) : r.messageId = "clientFeatureInServer"

\* C15: for a checked file without the directive whose only client feature
\* is the object of a member access, a browser global, exactly one diagnostic
\* is reported and it has the name of the object
C15_MemberAccessReportsObjectOnly ==
    (LintDone /\ ~firstIsUseClient(ast) /\ lintChecksFile(path.file)) =>
        \A p \in FeatureOccurrences :
            (FeatureOccurrences = {p} /\ IsMemberObject(ast, p)) =>
                /\ Len(lint.reports) = 1
                /\ lint.reports[1].name = NodeAt(ast, p).name

---------------------------------------------------------------------------
(* The lint rule's fix                                                     *)

\* the file as it was before the first pass
OriginalText == files0[path.file]

\* C21: a fix is attached to a report only when there is a first statement to
\* insert before; after one application the file is the directive followed by
\* the original text, its first statement is the directive, and the rule
\* then reports nothing and offers no fix, so that the fix is applied at most
\* once however many passes are run
C21_FixReachesFixedPoint ==
    cmd = "lint" =>
        /\ \A k \in 1..Len(lint.reports) :
              lint.reports[k].fix # "undefined" => lint.autoFix /\ Len(ast.kids) > 0
        /\ lint.pass <= 1
        /\ lint.pass = 1 =>
              /\ content = DirectiveText \o OriginalText
              /\ files[path.file] = content
              /\ firstIsUseClient(ast)
              /\ Len(ast.kids) = Len(StatementsOf(OriginalText)) + 1
              /\ lint.clientFeatures = <<>> /\ lint.reports = <<>>
              /\ pc # "start" => ~lint.listening

\* C21 witness: the rule has run again on a file that was fixed while it had
\* several reports, each with a fix
C21_Witness ==
    /\ cmd = "lint" /\ pc = "done"
    /\ lint.pass = 1
    /\ lint.autoFix
    /\ Len(program) >= 3
    /\ Cardinality({p \in Paths(ast) : p # <<>> /\ directClient(NodeAt(ast, p))}) >= 2

====
